---- MODULE Spec2Model ----
(***************************************************************************)
(* String Analysis API (ayo-69/stage-1).                                   *)
(*                                                                         *)
(* The repository holds two Express servers with the same routes:          *)
(*   "index.js"  is src/src/index.js                                       *)
(*   "part_000"  is src/unnamed/part_000                                   *)
(* (src/unnamed/part_001 registers no route and is not modelled).          *)
(* The variable impl chooses the server; every handler is translated from  *)
(* both files and branches on impl where they differ.                      *)
(*                                                                         *)
(* JavaScript strings are sequences of one-character strings; the model    *)
(* is restricted to ASCII, where code units and code points coincide.      *)
(***************************************************************************)
EXTENDS Integers, Sequences, FiniteSets, TLC

VARIABLES
    impl,         \* which server file is running
    stringStore,  \* the Map, as the sequence of its values in insertion order
    now,          \* the wall clock read by new Date()
    req,          \* the request handled last
    res,          \* the response sent to it
    prev          \* history: the state-changing request handled before req

vars == <<impl, stringStore, now, req, res, prev>>

Impls == {"index.js", "part_000"}

----------------------------------------------------------------------------
(* Bounds *)

MaxTime == 2

----------------------------------------------------------------------------
(* JavaScript values whose type is decided at run time *)

Undefined == [t |-> "undefined", v |-> <<>>]
Null      == [t |-> "null", v |-> <<>>]
NaN       == [t |-> "NaN", v |-> <<>>]
JBool(b)  == [t |-> "boolean", v |-> b]
JNum(n)   == [t |-> "number", v |-> n]
JStr(s)   == [t |-> "string", v |-> s]
JMatch(m) == [t |-> "match", v |-> m]

\* a === b
StrictEq(a, b) == a.t = b.t /\ a.t # "NaN" /\ a.v = b.v

\* !!a
Truthy(a) ==
    CASE "t" \notin DOMAIN a  -> TRUE         \* an object literal
      [] a.t = "undefined" -> FALSE
      [] a.t = "null"      -> FALSE
      [] a.t = "NaN"       -> FALSE
      [] a.t = "boolean"   -> a.v
      [] a.t = "number"    -> a.v # 0
      [] a.t = "string"    -> a.v # <<>>
      [] OTHER             -> TRUE          \* an object

\* obj[key] / obj.key on an object literal
Get(obj, key) == IF key \in DOMAIN obj THEN obj[key] ELSE Undefined

----------------------------------------------------------------------------
(* Strings *)

UpperCase == <<"A","B","C","D","E","F","G","H","I","J","K","L","M",
               "N","O","P","Q","R","S","T","U","V","W","X","Y","Z">>
LowerCase == <<"a","b","c","d","e","f","g","h","i","j","k","l","m",
               "n","o","p","q","r","s","t","u","v","w","x","y","z">>
Digits    == <<"0","1","2","3","4","5","6","7","8","9">>

WhiteSpace == {" ", "\t", "\n"}

IsUpper(c) == \E i \in DOMAIN UpperCase : UpperCase[i] = c
IsLower(c) == \E i \in DOMAIN LowerCase : LowerCase[i] = c
IsDigit(c) == \E i \in DOMAIN Digits : Digits[i] = c
DigitVal(c) == (CHOOSE i \in DOMAIN Digits : Digits[i] = c) - 1

\* \w
IsWordChar(c) == IsUpper(c) \/ IsLower(c) \/ IsDigit(c) \/ c = "_"

toLowerCaseChar(c) ==
    IF IsUpper(c) THEN LowerCase[CHOOSE i \in DOMAIN UpperCase : UpperCase[i] = c]
    ELSE c

\* String.prototype.toLowerCase
toLowerCase(s) == [i \in 1..Len(s) |-> toLowerCaseChar(s[i])]

\* split('').reverse().join('')
reverse(s) == [i \in 1..Len(s) |-> s[Len(s) + 1 - i]]

\* the first index >= i of s that holds no white space (Len(s) + 1 when none)
RECURSIVE SkipWhiteSpace(_, _)
SkipWhiteSpace(s, i) ==
    IF i > Len(s) \/ s[i] \notin WhiteSpace THEN i ELSE SkipWhiteSpace(s, i + 1)

\* the last index <= i of s that holds no white space (0 when none)
RECURSIVE SkipWhiteSpaceBack(_, _)
SkipWhiteSpaceBack(s, i) ==
    IF i < 1 \/ s[i] \notin WhiteSpace THEN i ELSE SkipWhiteSpaceBack(s, i - 1)

\* String.prototype.trim
trim(s) == SubSeq(s, SkipWhiteSpace(s, 1), SkipWhiteSpaceBack(s, Len(s)))

\* s has t at (1-based) position i
HasAt(s, i, t) == i >= 1 /\ i + Len(t) - 1 <= Len(s) /\ SubSeq(s, i, i + Len(t) - 1) = t

\* String.prototype.includes
includes(s, t) == \E i \in 1..(Len(s) + 1) : HasAt(s, i, t)

\* s.split(/\s+/), scanning from index i with the token cur under construction
RECURSIVE SplitFrom(_, _, _)
SplitFrom(s, i, cur) ==
    IF i > Len(s) THEN <<cur>>
    ELSE IF s[i] \in WhiteSpace
         THEN <<cur>> \o SplitFrom(s, SkipWhiteSpace(s, i), <<>>)
         ELSE SplitFrom(s, i + 1, Append(cur, s[i]))

split(s) == SplitFrom(s, 1, <<>>)

\* the end (exclusive) of the maximal run of digits of s that starts at i
RECURSIVE DigitsEnd(_, _)
DigitsEnd(s, i) ==
    IF i > Len(s) \/ ~IsDigit(s[i]) THEN i ELSE DigitsEnd(s, i + 1)

\* the decimal value of a sequence of digits
RECURSIVE DecimalValue(_)
DecimalValue(ds) ==
    IF ds = <<>> THEN 0
    ELSE 10 * DecimalValue(SubSeq(ds, 1, Len(ds) - 1)) + DigitVal(ds[Len(ds)])

\* parseInt(s): leading white space, an optional sign, the longest run of digits
parseInt(s) ==
    LET a    == SkipWhiteSpace(s, 1)
        sgn  == IF a <= Len(s) /\ s[a] = "-" THEN -1 ELSE 1
        b    == IF a <= Len(s) /\ s[a] \in {"-", "+"} THEN a + 1 ELSE a
        e    == DigitsEnd(s, b)
    IN  IF e = b THEN NaN ELSE JNum(sgn * DecimalValue(SubSeq(s, b, e - 1)))

isNaN(x) == x.t = "NaN"

----------------------------------------------------------------------------
(* Analyzer: the derived properties computed by POST /strings *)

\* crypto.createHash('sha256').update(str).digest('hex'): the digest is
\* modelled as an injective function of its input (collision resistance).
sha256(str) == [sha256_of |-> str]

isPalindrome(str) ==
    LET lower == toLowerCase(str) IN lower = reverse(lower)

charFreq(str) ==
    [ch \in {str[i] : i \in 1..Len(str)} |-> Cardinality({i \in 1..Len(str) : str[i] = ch})]

uniqueChars(str) == {str[i] : i \in 1..Len(str)}

wordCount(str) == Len(SelectSeq(split(str), LAMBDA tok : tok # <<>>))

\* the name of the palindrome flag in each file
PalindromeKey(im) == IF im = "index.js" THEN "is_palidrome" ELSE "is_palindrome"

properties(im, str) ==
    [k \in {"length", PalindromeKey(im), "unique_characters", "word_count",
            "sha256_hash", "character_frequency_map"} |->
        CASE k = "length"                  -> Len(str)
          [] k = PalindromeKey(im)         -> isPalindrome(str)
          [] k = "unique_characters"       -> Cardinality(uniqueChars(str))
          [] k = "word_count"              -> wordCount(str)
          [] k = "sha256_hash"             -> sha256(str)
          [] k = "character_frequency_map" -> charFreq(str)]

\* the record built and stored by POST /strings
obj(im, str, time) ==
    [id |-> sha256(str), value |-> str, properties |-> properties(im, str),
     created_at |-> time]

\* props.<key> as a JavaScript value (undefined when the object has no such key)
Prop(props, key) ==
    IF key \notin DOMAIN props THEN Undefined
    ELSE IF key \in {"is_palidrome", "is_palindrome"} THEN JBool(props[key])
    ELSE JNum(props[key])

\* props.character_frequency_map[c] is truthy
HasChar(props, c) ==
    c \in DOMAIN props.character_frequency_map /\ props.character_frequency_map[c] # 0

----------------------------------------------------------------------------
(* Store: the Map stringStore *)

has(store, hash) == \E i \in 1..Len(store) : store[i].id = hash

get(store, hash) ==
    IF has(store, hash)
    THEN store[CHOOSE i \in 1..Len(store) : store[i].id = hash]
    ELSE Undefined

\* Map.prototype.set for a key that has(store, key) excludes appends the entry;
\* for a present key it replaces the value in place
set(store, hash, o) ==
    IF has(store, hash)
    THEN [i \in 1..Len(store) |-> IF store[i].id = hash THEN o ELSE store[i]]
    ELSE Append(store, o)

delete(store, hash) == SelectSeq(store, LAMBDA o : o.id # hash)

values(store) == store
----------------------------------------------------------------------------
(* String literals of the source *)

S_strings     == <<"s","t","r","i","n","g","s">>
S_filterByNL  == <<"f","i","l","t","e","r","-","b","y","-","n","a","t","u","r","a","l","-","l","a","n","g","u","a","g","e">>
S_true        == <<"t","r","u","e">>
S_false       == <<"f","a","l","s","e">>
S_palindromic == <<"p","a","l","i","n","d","r","o","m","i","c">>
S_palindrome  == <<"p","a","l","i","n","d","r","o","m","e">>
S_palidrome   == <<"p","a","l","i","d","r","o","m","e">>
S_single_word == <<"s","i","n","g","l","e"," ","w","o","r","d">>
S_long        == <<"l","o","n","g">>
S_er          == <<"e","r">>
S_than        == <<" ","t","h","a","n"," ">>
S_character   == <<" ","c","h","a","r","a","c","t","e","r">>
S_contains    == <<"c","o","n","t","a","i","n","s">>
S_the         == <<" ","t","h","e">>
S_letter      == <<" ","l","e","t","t","e","r"," ">>

----------------------------------------------------------------------------
(* Responses *)

\* res.status(s).json(b), sent by the named handler
Reply(handler, status, body) == [handler |-> handler, status |-> status, body |-> body]

\* what a handler returns: the response and the store it leaves
Out(r, store) == [res |-> r, store |-> store]

----------------------------------------------------------------------------
(* POST /strings *)

\* the status sent when the body has no 'value' field
MissingValueStatus(im) == IF im = "index.js" THEN 400 ELSE 422

\* postStrings without the has(hash) test: the record is stored again
postStrings_NoDuplicateCheck(im, store, time, value) ==
    IF value.t = "undefined"
    THEN Out(Reply("postStrings", MissingValueStatus(im), [error |-> "Missing 'value' field"]), store)
    ELSE IF value.t # "string"
    THEN Out(Reply("postStrings", 422, [error |-> "'value' must be a string"]), store)
    ELSE LET str  == trim(value.v)
             hash == sha256(str)
         IN  IF str = <<>>
             THEN Out(Reply("postStrings", 400, [error |-> "'value' cannot be empty"]), store)
             ELSE Out(Reply("postStrings", 201, obj(im, str, time)),
                      set(store, hash, obj(im, str, time)))

\* postStrings storing the record before the has(hash) test answers 409
postStrings_SetBeforeCheck(im, store, time, value) ==
    IF value.t = "undefined"
    THEN Out(Reply("postStrings", MissingValueStatus(im), [error |-> "Missing 'value' field"]), store)
    ELSE IF value.t # "string"
    THEN Out(Reply("postStrings", 422, [error |-> "'value' must be a string"]), store)
    ELSE LET str  == trim(value.v)
             hash == sha256(str)
         IN  IF str = <<>>
             THEN Out(Reply("postStrings", 400, [error |-> "'value' cannot be empty"]), store)
             ELSE IF has(store, hash)
             THEN Out(Reply("postStrings", 409, [error |-> "String already exists"]),
                      set(store, hash, obj(im, str, time)))
             ELSE Out(Reply("postStrings", 201, obj(im, str, time)),
                      set(store, hash, obj(im, str, time)))

postStrings(im, store, time, value) ==
    IF value.t = "undefined"
    THEN Out(Reply("postStrings", MissingValueStatus(im), [error |-> "Missing 'value' field"]), store)
    ELSE IF value.t # "string"
    THEN Out(Reply("postStrings", 422, [error |-> "'value' must be a string"]), store)
    ELSE LET str  == trim(value.v)
             hash == sha256(str)
         IN  IF str = <<>>
             THEN Out(Reply("postStrings", 400, [error |-> "'value' cannot be empty"]), store)
             ELSE IF has(store, hash)
             THEN Out(Reply("postStrings", 409, [error |-> "String already exists"]), store)
             ELSE Out(Reply("postStrings", 201, obj(im, str, time)),
                      set(store, hash, obj(im, str, time)))

----------------------------------------------------------------------------
(* GET /strings/:value *)

\* the response of GET /strings/:value when stringStore.get(hash) is undefined
GetMissing(im) ==
    IF im = "index.js"
    THEN Reply("getStringByValue", 200, Undefined)
    ELSE Reply("getStringByValue", 404, [error |-> "String not found"])

getStringByValue(im, store, value) ==
    IF ~Truthy(value) \/ value.t # "string"
    THEN Out(Reply("getStringByValue", 400, [error |-> "Invalid string value"]), store)
    ELSE LET str    == trim(value.v)
             stored == get(store, sha256(str))
         IN  IF str = <<>>
             THEN Out(Reply("getStringByValue", 400, [error |-> "String cannot be empty"]), store)
             ELSE IF ~has(store, sha256(str))        \* !stored
             THEN Out(GetMissing(im), store)
             ELSE Out(Reply("getStringByValue", 200, stored), store)

----------------------------------------------------------------------------
(* DELETE /strings/:value *)

\* deleteString without the has(hash) test: Map.delete of an absent key answers 204
deleteString_NoHasCheck(im, store, value) ==
    IF ~Truthy(value) \/ value.t # "string"
    THEN Out(Reply("deleteString", 400, [error |-> "Invalid string value"]), store)
    ELSE LET str  == trim(value.v)
             hash == sha256(str)
         IN  IF str = <<>>
             THEN Out(Reply("deleteString", 400, [error |-> "String cannot be empty"]), store)
             ELSE Out(Reply("deleteString", 204, Undefined), delete(store, hash))

deleteString(im, store, value) ==
    IF ~Truthy(value) \/ value.t # "string"
    THEN Out(Reply("deleteString", 400, [error |-> "Invalid string value"]), store)
    ELSE LET str  == trim(value.v)
             hash == sha256(str)
         IN  IF str = <<>>
             THEN Out(Reply("deleteString", 400, [error |-> "String cannot be empty"]), store)
             ELSE IF ~has(store, hash)
             THEN Out(Reply("deleteString", 404, [error |-> "String not found"]), store)
             ELSE Out(Reply("deleteString", 204, Undefined), delete(store, hash))
----------------------------------------------------------------------------
(* GET /strings (structured filters) *)

\* the name under which the response reports the filters
FiltersAppliedKey(im) == IF im = "index.js" THEN "filtered_applied" ELSE "filters_applied"

\* the is_palindrome entry of the filters object, from the query parameter p
PalindromeFilter(im, p) ==
    IF im = "index.js"
    THEN JBool(p.t = "string" /\ toLowerCase(p.v) = S_true)
    ELSE IF p.t # "undefined" THEN JBool(toLowerCase(p.v) = S_true) ELSE Undefined

\* the validation error of the query, or "" when it is accepted
FilterError(im, query) ==
    LET p  == Get(query, PalindromeKey(im))
        mn == Get(query, "min_length")
        mx == Get(query, "max_length")
        wc == Get(query, "word_count")
        cc == Get(query, "contains_character")
    IN  IF Truthy(p) /\ toLowerCase(p.v) \notin {S_true, S_false}
        THEN "is_palindrome must be true or false"
        ELSE IF Truthy(mn) /\ isNaN(parseInt(mn.v)) THEN "min_length must be an integer"
        ELSE IF Truthy(mx) /\ isNaN(parseInt(mx.v)) THEN "max_length must be an integer"
        ELSE IF Truthy(wc) /\ isNaN(parseInt(wc.v)) THEN "word_count must be an integer"
        ELSE IF Truthy(cc) /\ Len(cc.v) # 1
        THEN "contains_character must be a single character"
        ELSE ""

\* the filters object built from an accepted query
Filters(im, query) ==
    LET p  == Get(query, PalindromeKey(im))
        mn == Get(query, "min_length")
        mx == Get(query, "max_length")
        wc == Get(query, "word_count")
        cc == Get(query, "contains_character")
    IN  [k \in {PalindromeKey(im), "min_length", "max_length", "word_count",
                "contains_character"} |->
            CASE k = PalindromeKey(im)      -> PalindromeFilter(im, p)
              [] k = "min_length"           -> IF Truthy(mn) THEN parseInt(mn.v) ELSE Null
              [] k = "max_length"           -> IF Truthy(mx) THEN parseInt(mx.v) ELSE Null
              [] k = "word_count"           -> IF Truthy(wc) THEN parseInt(wc.v) ELSE Null
              [] k = "contains_character"   -> IF Truthy(cc) THEN cc ELSE Null]

\* whether the filter callback tests word_count
ChecksWordCount(im) == im # "index.js"

\* the callback of Array.prototype.filter in GET /strings
matches(im, filters, props) ==
    LET fp == filters[PalindromeKey(im)]
        mn == filters["min_length"]
        mx == filters["max_length"]
        wc == filters["word_count"]
        cc == filters["contains_character"]
    IN  IF fp.t # "undefined" /\ ~StrictEq(fp, Prop(props, PalindromeKey(im))) THEN FALSE
        ELSE IF mn.t # "null" /\ props["length"] < mn.v THEN FALSE
        ELSE IF mx.t # "null" /\ props["length"] > mx.v THEN FALSE
        ELSE IF ChecksWordCount(im) /\ wc.t # "null" /\ props["word_count"] # wc.v THEN FALSE
        ELSE IF Truthy(cc) /\ ~HasChar(props, cc.v[1]) THEN FALSE
        ELSE TRUE

\* Object.fromEntries(Object.entries(filters).filter(([_, v]) => v !== null && v !== undefined))
Applied(filters) ==
    [k \in {k \in DOMAIN filters : filters[k].t \notin {"null", "undefined"}} |-> filters[k]]

getStrings(im, store, query) ==
    IF FilterError(im, query) # ""
    THEN Out(Reply("getStrings", 400, [error |-> FilterError(im, query)]), store)
    ELSE LET filters  == Filters(im, query)
             filtered == SelectSeq(values(store),
                                   LAMBDA o : matches(im, filters, o.properties))
         IN  Out(Reply("getStrings", 200,
                       [data |-> filtered, count |-> Len(filtered),
                        applied_key |-> FiltersAppliedKey(im),
                        applied |-> Applied(filters)]),
                 store)

----------------------------------------------------------------------------
(* Natural-language translator *)

\* whether the query names palindromes, as each file tests it
MentionsPalindrome(im, q) ==
    IF im = "index.js"
    THEN includes(q, S_palindromic) \/ includes(q, S_palidrome)
    ELSE includes(q, S_palindrome) \/ includes(q, S_palindromic)

\* /long(er)? than (\d+) characters?/ anchored at i: the match's groups, or <<>>
LengthMatchAt(q, i) ==
    LET er == HasAt(q, i + Len(S_long), S_er)
        p  == IF er /\ HasAt(q, i + Len(S_long) + Len(S_er), S_than)
              THEN i + Len(S_long) + Len(S_er)
              ELSE i + Len(S_long)
        d  == p + Len(S_than)
        e  == DigitsEnd(q, d)
    IN  IF HasAt(q, i, S_long) /\ HasAt(q, p, S_than) /\ e > d /\ HasAt(q, e, S_character)
        THEN <<IF p = i + Len(S_long) THEN <<>> ELSE S_er, SubSeq(q, d, e - 1)>>
        ELSE <<>>

\* query.match(/long(er)? than (\d+) characters?/): groups 1 and 2 of the
\* leftmost match, or null
lengthMatch(q) ==
    LET at == {i \in 1..Len(q) : LengthMatchAt(q, i) # <<>>}
    IN  IF at = {} THEN Null
        ELSE JMatch(LengthMatchAt(q, CHOOSE i \in at : \A j \in at : i <= j))

\* /contains(?: the)? letter (\w)/ anchored at i: the match's text and group 1, or <<>>
ContainsMatchAt(q, i) ==
    LET a == i + Len(S_contains)
        p == IF HasAt(q, a, S_the) /\ HasAt(q, a + Len(S_the), S_letter)
             THEN a + Len(S_the)
             ELSE a
        c == p + Len(S_letter)
    IN  IF HasAt(q, i, S_contains) /\ HasAt(q, p, S_letter) /\ c <= Len(q) /\ IsWordChar(q[c])
        THEN <<SubSeq(q, i, c), <<q[c]>>>>
        ELSE <<>>

\* query.match(/contains(?: the)? letter (\w)/): the leftmost match, or null
containsMatch(q) ==
    LET at == {i \in 1..Len(q) : ContainsMatchAt(q, i) # <<>>}
    IN  IF at = {} THEN Null
        ELSE JMatch(ContainsMatchAt(q, CHOOSE i \in at : \A j \in at : i <= j))

\* what is assigned to filters.contains_character from the match m
ContainsCharacterOf(im, m) == IF im = "index.js" THEN m ELSE JStr(m.v[2])

\* the keys set by parseNaturalLanguage for the (lowercased) query q
ParsedKeys(im, q) ==
    (IF MentionsPalindrome(im, q) THEN {PalindromeKey(im)} ELSE {})
    \cup (IF includes(q, S_single_word) THEN {"word_count"} ELSE {})
    \cup (IF lengthMatch(q).t # "null" THEN {"min_length"} ELSE {})
    \cup (IF containsMatch(q).t # "null" THEN {"contains_character"} ELSE {})

parseNaturalLanguage(im, query) ==
    LET q == toLowerCase(query)
    IN  IF ParsedKeys(im, q) = {} THEN Null
        ELSE [k \in ParsedKeys(im, q) |->
                CASE k = PalindromeKey(im)    -> JBool(TRUE)
                  [] k = "word_count"         -> JNum(1)
                  [] k = "min_length"         -> JNum(parseInt(lengthMatch(q).v[2]).v + 1)
                  [] k = "contains_character" -> ContainsCharacterOf(im, containsMatch(q))]

----------------------------------------------------------------------------
(* GET /strings/filter-by-natural-language *)

\* props.character_frequency_map[c] is truthy, c used as a property key
HasCharKey(props, c) == c.t = "string" /\ Len(c.v) = 1 /\ HasChar(props, c.v[1])

\* the callback of Array.prototype.filter in the natural-language handler
nlMatches(parsedFilters, props) ==
    LET fp == Get(parsedFilters, "is_palindrome")
        wc == Get(parsedFilters, "word_count")
        mn == Get(parsedFilters, "min_length")
        cc == Get(parsedFilters, "contains_character")
    IN  IF fp.t # "undefined" /\ ~StrictEq(Prop(props, "is_palindrome"), fp) THEN FALSE
        ELSE IF wc.t # "undefined" /\ ~StrictEq(Prop(props, "word_count"), wc) THEN FALSE
        ELSE IF mn.t # "undefined" /\ props["length"] < mn.v THEN FALSE
        ELSE IF cc.t # "undefined" /\ ~HasCharKey(props, cc) THEN FALSE
        ELSE TRUE

\* whether the function the handler calls is defined in the file
\* (index.js calls parseNatural, which no file defines: a ReferenceError)
ParserIsDefined(im) == im # "index.js"

filterByNaturalLanguage(im, store, query) ==
    IF ~Truthy(query) \/ query.t # "string"
    THEN Out(Reply("filterByNaturalLanguage", 400, [error |-> "Query parameter is required"]), store)
    ELSE IF ~ParserIsDefined(im)
    THEN Out(Reply("filterByNaturalLanguage", 500, [error |-> "ReferenceError"]), store)
    ELSE LET parsedFilters == parseNaturalLanguage(im, query.v)
             filtered == SelectSeq(values(store),
                                   LAMBDA o : nlMatches(parsedFilters, o.properties))
         IN  IF ~Truthy(parsedFilters)
             THEN Out(Reply("filterByNaturalLanguage", 400,
                            [error |-> "Unable to parse natural language query"]), store)
             ELSE Out(Reply("filterByNaturalLanguage", 200,
                            [data |-> filtered, count |-> Len(filtered),
                             interpreted_query |->
                                [original |-> query.v, parsed_filters |-> parsedFilters]]),
                      store)
----------------------------------------------------------------------------
(* Routing: Express tries the routes in the order of their registration *)

Lit(s)  == [param |-> FALSE, s |-> s]
Param   == [param |-> TRUE, s |-> <<>>]

\* app.post / app.get / app.delete calls, in source order (the same in both files)
routes ==
    << [method |-> "POST",   path |-> <<Lit(S_strings)>>,                    handler |-> "postStrings"],
       [method |-> "GET",    path |-> <<Lit(S_strings), Param>>,             handler |-> "getStringByValue"],
       [method |-> "GET",    path |-> <<Lit(S_strings)>>,                    handler |-> "getStrings"],
       [method |-> "GET",    path |-> <<Lit(S_strings), Lit(S_filterByNL)>>, handler |-> "filterByNaturalLanguage"],
       [method |-> "DELETE", path |-> <<Lit(S_strings), Param>>,             handler |-> "deleteString"] >>

\* a route's path pattern matches the request's path segments
PathMatches(pattern, path) ==
    /\ Len(pattern) = Len(path)
    /\ \A i \in 1..Len(pattern) :
          IF pattern[i].param THEN path[i] # <<>> ELSE pattern[i].s = path[i]

RouteMatches(route, method, path) ==
    route.method = method /\ PathMatches(route.path, path)

\* the handler of the first matching route ("none": Express answers 404 itself)
Route(method, path) ==
    LET hits == {i \in 1..Len(routes) : RouteMatches(routes[i], method, path)}
    IN  IF hits = {} THEN "none"
        ELSE routes[CHOOSE i \in hits : \A j \in hits : i <= j].handler

\* the whole handling of request r by server im
Handle(im, store, time, r) ==
    LET h == Route(r.method, r.path)
    IN  CASE h = "postStrings"             -> postStrings(im, store, time, r.body)
          [] h = "getStringByValue"        -> getStringByValue(im, store, JStr(r.path[2]))
          [] h = "getStrings"              -> getStrings(im, store, r.query)
          [] h = "filterByNaturalLanguage" -> filterByNaturalLanguage(im, store, Get(r.query, "query"))
          [] h = "deleteString"            -> deleteString(im, store, JStr(r.path[2]))
          [] OTHER                         -> Out(Reply("none", 404, Undefined), store)

----------------------------------------------------------------------------
(* Inputs *)

V_Racecar == <<"R","a","c","e","c","a","r">>
V_padded  == <<" ","R","a","c","e","c","a","r"," ">>
V_a_b     == <<"a"," ","b">>
V_blank   == <<" "," ">>

\* values of the path parameter :value (a path segment is never empty)
PathValues == {V_Racecar, V_padded, V_a_b, V_blank}

\* req.body.value: absent, not a string, or a string
BodyValues == {Undefined, JNum(42), JStr(<<>>)} \cup {JStr(s) : s \in PathValues}

Q1(k, s) == k :> JStr(s)

\* req.query of GET /strings
FilterQueries ==
    {<<>>}
    \cup {Q1("is_palindrome", s) : s \in {<<"t","r","u","e">>, <<"F","A","L","S","E">>, <<"y","e","s">>}}
    \cup {Q1("is_palidrome", s) : s \in {<<"t","r","u","e">>, <<"f","a","l","s","e">>}}
    \cup {Q1("min_length", s) : s \in {<<"4">>, <<"x">>}}
    \cup {Q1("max_length", s) : s \in {<<"3">>, <<"1","x">>}}
    \cup {Q1("word_count", s) : s \in {<<"1">>, <<"2">>, <<"x">>}}
    \cup {Q1("contains_character", s) : s \in {<<"a">>, <<"R">>, <<"a","b">>}}
    \cup {Q1("min_length", <<"5">>) @@ Q1("max_length", <<"1","0">>)}
    \cup {Q1("word_count", <<"1">>) @@ Q1("contains_character", <<"b">>)}

NL_palindromic == <<"p","a","l","i","n","d","r","o","m","i","c"," ","s","t","r","i","n","g","s">>
NL_single      == <<"S","i","n","g","l","e"," ","w","o","r","d"," ","s","t","r","i","n","g","s">>
NL_unrelated   == <<"s","o","m","e","t","h","i","n","g"," ","u","n","r","e","l","a","t","e","d">>

\* req.query of GET /strings/filter-by-natural-language
NLRequestQueries == {<<>>} \cup {Q1("query", s) : s \in {NL_palindromic, NL_single, NL_unrelated}}

Request(method, path, body, query) ==
    [method |-> method, path |-> path, body |-> body, query |-> query]

NoRequest  == Request("NONE", <<>>, Undefined, <<>>)
NoResponse == Reply("none", 0, Undefined)

----------------------------------------------------------------------------
(* History *)

NoPrev == [method |-> "NONE", key |-> <<>>, status |-> 0]

\* the canonical (trimmed) value a POST or DELETE request is about
KeyOf(r) ==
    IF r.method = "POST" THEN (IF r.body.t = "string" THEN trim(r.body.v) ELSE <<>>)
    ELSE IF Len(r.path) = 2 THEN trim(r.path[2])
    ELSE <<>>

\* what prev remembers of a handled request: a POST that inserted (201) or a
\* DELETE that removed (204), with the value it was about
Summary(r, rs) ==
    IF r.method \in {"POST", "DELETE"} /\ rs.status \in {201, 204}
    THEN [method |-> r.method, key |-> KeyOf(r), status |-> rs.status]
    ELSE NoPrev

----------------------------------------------------------------------------
(* The state machine *)

Init ==
    /\ impl \in Impls
    /\ stringStore = <<>>
    /\ now = 0
    /\ req = NoRequest
    /\ res = NoResponse
    /\ prev = NoPrev

PostStrings ==
    \E b \in BodyValues :
        LET r   == Request("POST", <<S_strings>>, b, <<>>)
            out == Handle(impl, stringStore, now, r)
        IN  /\ res' = out.res
            /\ stringStore' = out.store
            /\ req' = r
            /\ prev' = Summary(req, res)
            /\ UNCHANGED <<impl, now>>

GetStringByValue ==
    \E v \in PathValues :
        LET r   == Request("GET", <<S_strings, v>>, Undefined, <<>>)
            out == Handle(impl, stringStore, now, r)
        IN  /\ res' = out.res
            /\ stringStore' = out.store
            /\ req' = r
            /\ prev' = Summary(req, res)
            /\ UNCHANGED <<impl, now>>

GetStrings ==
    \E q \in FilterQueries :
        LET r   == Request("GET", <<S_strings>>, Undefined, q)
            out == Handle(impl, stringStore, now, r)
        IN  /\ res' = out.res
            /\ stringStore' = out.store
            /\ req' = r
            /\ prev' = Summary(req, res)
            /\ UNCHANGED <<impl, now>>

GetNaturalLanguage ==
    \E q \in NLRequestQueries :
        LET r   == Request("GET", <<S_strings, S_filterByNL>>, Undefined, q)
            out == Handle(impl, stringStore, now, r)
        IN  /\ res' = out.res
            /\ stringStore' = out.store
            /\ req' = r
            /\ prev' = Summary(req, res)
            /\ UNCHANGED <<impl, now>>

DeleteString ==
    \E v \in PathValues :
        LET r   == Request("DELETE", <<S_strings, v>>, Undefined, <<>>)
            out == Handle(impl, stringStore, now, r)
        IN  /\ res' = out.res
            /\ stringStore' = out.store
            /\ req' = r
            /\ prev' = Summary(req, res)
            /\ UNCHANGED <<impl, now>>

\* time passes
Tick == now < MaxTime /\ now' = now + 1 /\ UNCHANGED <<impl, stringStore, req, res, prev>>

Next == PostStrings \/ GetStringByValue \/ GetStrings \/ GetNaturalLanguage \/ DeleteString \/ Tick

Spec == Init /\ [][Next]_vars
----------------------------------------------------------------------------
(* The translator alone: parseNaturalLanguage applied to a family of queries *)

NL_heads == {<<"a","l","l"," ">>, <<"P","a","l","i","n","d","r","o","m","i","c"," ">>, <<"p","a","l","i","n","d","r","o","m","e"," ">>, <<"s","i","n","g","l","e"," ","w","o","r","d"," ">>}
NL_nouns == {<<"s","t","r","i","n","g","s">>, <<"t","e","x","t","s">>}
NL_lengths ==
    {<<>>,
     <<" ","l","o","n","g","e","r"," ","t","h","a","n"," ","1","0"," ","c","h","a","r","a","c","t","e","r","s">>,
     <<" ","l","o","n","g"," ","t","h","a","n"," ","7"," ","c","h","a","r","a","c","t","e","r","s">>,
     <<" ","l","o","n","g","e","r"," ","t","h","a","n"," ","t","e","n"," ","c","h","a","r","a","c","t","e","r","s">>}
NL_letters ==
    {<<>>,
     <<" ","t","h","a","t"," ","c","o","n","t","a","i","n"," ","t","h","e"," ","l","e","t","t","e","r"," ","z">>,
     <<" ","t","h","a","t"," ","c","o","n","t","a","i","n","s"," ","t","h","e"," ","l","e","t","t","e","r"," ","z">>,
     <<" ","a","n","d"," ","c","o","n","t","a","i","n","s"," ","l","e","t","t","e","r"," ","Q">>}

NL_example_long   == <<"p","a","l","i","n","d","r","o","m","i","c"," ","s","t","r","i","n","g","s"," ","l","o","n","g","e","r"," ","t","h","a","n"," ","1","0"," ","c","h","a","r","a","c","t","e","r","s">>
NL_example_letter == <<"s","t","r","i","n","g","s"," ","t","h","a","t"," ","c","o","n","t","a","i","n"," ","t","h","e"," ","l","e","t","t","e","r"," ","z">>

\* the queries handed to the translator
NLQueries ==
    {h \o n \o l \o c : h \in NL_heads, n \in NL_nouns, l \in NL_lengths, c \in NL_letters}
    \cup {NL_example_long, NL_example_letter, NL_unrelated, NL_palindromic, NL_single}

InitNL ==
    /\ impl \in Impls
    /\ stringStore = <<>>
    /\ now = 0
    /\ req \in {Request("TRANSLATE", <<>>, Undefined, Q1("query", q)) : q \in NLQueries}
    /\ res = NoResponse
    /\ prev = NoPrev

\* parseNaturalLanguage(query) is called and returns
Translate ==
    /\ req.method = "TRANSLATE"
    /\ res = NoResponse
    /\ res' = Reply("parseNaturalLanguage", 0, parseNaturalLanguage(impl, req.query["query"].v))
    /\ UNCHANGED <<impl, stringStore, now, req, prev>>

NextNL == Translate

SpecNL == InitNL /\ [][NextNL]_vars
----------------------------------------------------------------------------
(* Vocabulary of the properties *)

\* the step handled a request (time stands still while a handler runs)
Handled == now' = now

\* the fingerprint the request r is about
Fingerprint(r) == sha256(KeyOf(r))

Keys(store) == {store[i].id : i \in 1..Len(store)}

IsPost(r)     == r.method = "POST"
IsDelete(r)   == r.method = "DELETE" /\ Len(r.path) = 2
IsGetValue(r) == r.method = "GET" /\ Len(r.path) = 2
IsGetList(r)  == r.method = "GET" /\ r.path = <<S_strings>>
IsGetNL(r)    == r.method = "GET" /\ r.path = <<S_strings, S_filterByNL>>

----------------------------------------------------------------------------
(* C1 *)

C1_Step ==
    (Handled /\ IsPost(req') /\ req'.body.t = "string" /\ has(stringStore, Fingerprint(req')))
        => (res'.status = 409 /\ stringStore' = stringStore)

C1_Twice ==
    (IsPost(req) /\ prev.method = "POST" /\ prev.status = 201 /\ prev.key = KeyOf(req))
        => res.status = 409

\* C1: a POST /strings whose trimmed value is currently stored is answered 409
\* and leaves the store as it was; in particular a POST of the value that the
\* request just before it inserted (201) is answered 409.
C1_DuplicatePostIsConflict == []C1_Twice /\ [][C1_Step]_vars

C1_Witness ==
    /\ IsPost(req) /\ prev.method = "POST" /\ prev.status = 201 /\ prev.key = KeyOf(req)
    /\ res.status = 409
    /\ has(stringStore, Fingerprint(req))

----------------------------------------------------------------------------
(* C2 *)

C2_Step ==
    (Handled /\ IsDelete(req') /\ KeyOf(req') # <<>> /\ ~has(stringStore, Fingerprint(req')))
        => (res'.status = 404 /\ stringStore' = stringStore)

C2_Twice ==
    (IsDelete(req) /\ prev.method = "DELETE" /\ prev.status = 204 /\ prev.key = KeyOf(req))
        => res.status = 404

\* C2: DELETE /strings/:value for a value whose fingerprint is not stored is
\* answered 404; in particular a DELETE of the value that the request just
\* before it deleted (204) is answered 404.
C2_DeleteAbsentIsNotFound == []C2_Twice /\ [][C2_Step]_vars

C2_Witness ==
    /\ IsDelete(req) /\ prev.method = "DELETE" /\ prev.status = 204 /\ prev.key = KeyOf(req)
    /\ res.status = 404
    /\ stringStore # <<>>

----------------------------------------------------------------------------
(* C3 *)

\* C3: GET /strings/:value with a non-empty value is answered 200 with the
\* stored record when its fingerprint is stored, and 404 otherwise.
C3_GetByValue ==
    (IsGetValue(req) /\ KeyOf(req) # <<>>) =>
        IF has(stringStore, Fingerprint(req))
        THEN res.status = 200 /\ res.body = get(stringStore, Fingerprint(req))
        ELSE res.status = 404

----------------------------------------------------------------------------
(* C4 *)

\* the records of the store whose length lies in lo..hi
LengthBetween(store, lo, hi) ==
    SelectSeq(store, LAMBDA o : lo <= Len(o.value) /\ Len(o.value) <= hi)

\* C4: GET /strings without filter parameters returns every stored record, and
\* with only min_length and max_length it returns the records whose length
\* lies between them (absent predicates do not constrain).
C4_AbsentFilterUnconstrained ==
    IsGetList(req) =>
        /\ DOMAIN req.query = {} =>
              (res.status = 200 /\ res.body.data = stringStore)
        /\ (DOMAIN req.query = {"min_length", "max_length"}
              /\ ~isNaN(parseInt(req.query["min_length"].v))
              /\ ~isNaN(parseInt(req.query["max_length"].v))) =>
              (res.status = 200 /\ res.body.data =
                    LengthBetween(stringStore, parseInt(req.query["min_length"].v).v,
                                  parseInt(req.query["max_length"].v).v))

----------------------------------------------------------------------------
(* C5 *)

\* C5: when GET /strings is given word_count=n, every record of the response
\* data has word_count n.
C5_WordCountExact ==
    (IsGetList(req) /\ "word_count" \in DOMAIN req.query /\ res.status = 200) =>
        \A i \in 1..Len(res.body.data) :
            res.body.data[i].properties["word_count"] = parseInt(req.query["word_count"].v).v

----------------------------------------------------------------------------
(* C6, C7, C8: the rules of the translator as the specification states them *)

MaxQueryNumber == 10

\* the decimal numeral of n
RECURSIVE Numeral(_)
Numeral(n) == IF n < 10 THEN <<Digits[n + 1]>> ELSE Numeral(n \div 10) \o <<Digits[(n % 10) + 1]>>

SaysPalindrome(q) == includes(q, S_palindrome) \/ includes(q, S_palindromic)

SaysSingleWord(q) == includes(q, S_single_word)

SaysLongerThan(q, n) ==
    \E w \in {<<"l","o","n","g"," ","t","h","a","n"," ">>, <<"l","o","n","g","e","r"," ","t","h","a","n"," ">>} :
        includes(q, w \o Numeral(n) \o <<" ","c","h","a","r","a","c","t","e","r","s">>)

SaysContainsLetter(q, c) ==
    \E w \in {<<"c","o","n","t","a","i","n"," ","t","h","e"," ","l","e","t","t","e","r"," ">>, <<"c","o","n","t","a","i","n","s"," ","t","h","e"," ","l","e","t","t","e","r"," ">>, <<"c","o","n","t","a","i","n"," ","l","e","t","t","e","r"," ">>, <<"c","o","n","t","a","i","n","s"," ","l","e","t","t","e","r"," ">>} :
        includes(q, w \o <<c>>)

Letters == {LowerCase[i] : i \in DOMAIN LowerCase}

\* a record satisfies the filters the specification reads in the query q
Satisfies(o, q) ==
    /\ SaysPalindrome(q) => isPalindrome(o.value)
    /\ SaysSingleWord(q) => wordCount(o.value) = 1
    /\ \A n \in 0..MaxQueryNumber : SaysLongerThan(q, n) => Len(o.value) >= n + 1
    /\ \A c \in Letters : SaysContainsLetter(q, c) => \E i \in 1..Len(o.value) : o.value[i] = c

Translatable(q) ==
    \/ SaysPalindrome(q)
    \/ SaysSingleWord(q)
    \/ \E n \in 0..MaxQueryNumber : SaysLongerThan(q, n)
    \/ \E c \in Letters : SaysContainsLetter(q, c)

\* C6: GET /strings/filter-by-natural-language with a query the translator can
\* parse is handled by the natural-language handler and answered 200 with
\* exactly the stored records that satisfy the parsed filters.
C6_NaturalLanguageRouteAnswers ==
    (IsGetNL(req) /\ "query" \in DOMAIN req.query
       /\ Translatable(toLowerCase(req.query["query"].v))) =>
        /\ res.handler = "filterByNaturalLanguage"
        /\ res.status = 200
        /\ res.body.data =
              SelectSeq(stringStore,
                        LAMBDA o : Satisfies(o, toLowerCase(req.query["query"].v)))

\* the translator has returned
Translated == req.method = "TRANSLATE" /\ res.handler = "parseNaturalLanguage"

\* C7: the translator sets is_palindrome = true for a query containing
\* "palindrome" or "palindromic" and min_length = N + 1 for a query matching
\* "long(er) than N characters"; the documented example yields exactly
\* {is_palindrome: true, min_length: 11}.
C7_TranslatePalindromeAndLength ==
    Translated =>
        LET q == toLowerCase(req.query["query"].v)
            r == res.body
        IN  /\ SaysPalindrome(q) => StrictEq(Get(r, "is_palindrome"), JBool(TRUE))
            /\ \A n \in 0..MaxQueryNumber :
                  SaysLongerThan(q, n) => StrictEq(Get(r, "min_length"), JNum(n + 1))
            /\ req.query["query"].v = NL_example_long =>
                  DOMAIN r = {"is_palindrome", "min_length"}

\* C8: for a query "... contain(s) (the) letter c" the translator sets
\* contains_character to the one-character string c.
C8_TranslateContainsLetter ==
    Translated =>
        LET q == toLowerCase(req.query["query"].v)
            r == res.body
        IN  \A c \in Letters :
                SaysContainsLetter(q, c) => StrictEq(Get(r, "contains_character"), JStr(<<c>>))

----------------------------------------------------------------------------
(* C9 *)

\* C9: POST /strings is answered 422 when 'value' is missing or not a string,
\* 400 when it is a string that is empty after trimming, and 409 only when the
\* fingerprint of the trimmed value is stored.
C9_PostValidation ==
    IsPost(req) =>
        /\ req.body.t # "string" => res.status = 422
        /\ (req.body.t = "string" /\ KeyOf(req) = <<>>) => res.status = 400
        /\ res.status = 409 =>
              (req.body.t = "string" /\ KeyOf(req) # <<>> /\ has(stringStore, Fingerprint(req)))

----------------------------------------------------------------------------
(* C10 *)

C10_Step ==
    LET inserted == Handled /\ IsPost(req') /\ res'.status = 201
        deleted  == Handled /\ IsDelete(req') /\ res'.status = 204
        key      == Fingerprint(req')
    IN  /\ \A i \in 1..Len(stringStore) :
              has(stringStore', stringStore[i].id) =>
                  get(stringStore', stringStore[i].id) = stringStore[i]
        /\ (~inserted /\ ~deleted) => stringStore' = stringStore
        /\ inserted => /\ key \notin Keys(stringStore)
                       /\ Keys(stringStore') = Keys(stringStore) \cup {key}
                       /\ get(stringStore', key).created_at = now
        /\ deleted => /\ key \in Keys(stringStore)
                      /\ Keys(stringStore') = Keys(stringStore) \ {key}

\* C10: a stored record keeps its id, value, properties and created_at while
\* it is stored; GET requests and rejected requests leave the store unchanged,
\* a successful POST changes only the new key and a successful DELETE only the
\* deleted key.
C10_RecordsImmutable == [][C10_Step]_vars

C10_Witness ==
    /\ Len(stringStore) = 2
    /\ stringStore[1].created_at < stringStore[2].created_at
    /\ stringStore[2].created_at < now
    /\ IsPost(req) /\ res.status = 409

====
